---- MODULE Spec2Model ----
(***************************************************************************)
(* Model of koku's SUBS data extractor (koku/subs/subs_data_extractor.py): *)
(* SUBSDataExtractor.extract_data_to_s3 and the helpers it calls, run      *)
(* against the SubsLastProcessed table, the Provider table, the Trino      *)
(* line-item table and the worker's working directory.                     *)
(*                                                                         *)
(* Timestamps are whole seconds counted from the midnight two days before  *)
(* the month start; a datetime's date part is its multiple of              *)
(* SecondsPerDay.                                                          *)
(***************************************************************************)
EXTENDS Integers, Sequences, FiniteSets, TLC

VARIABLES
    created,              \* Provider.created_timestamp, per provider uuid
    line_items,           \* lineitem_usagestartdate of the rows of aws_line_items, per key
    subs_last_processed,  \* SubsLastProcessed: per key NoRow, or the row's latest_processed_time
    files,                \* names of the files in the worker's working directory
    batch_size,           \* settings.PARQUET_PROCESSING_BATCH_SIZE
    run,                  \* per extractor: the position and locals of its extract_data_to_s3 call
    oci                   \* the position and locals of an OCIProvider.cost_usage_source_is_reachable call

vars == <<created, line_items, subs_last_processed, files, batch_size, run, oci>>

----------------------------------------------------------------------------
(* Bounds of the model *)

MaxSec == 1        \* usage timestamps fall on seconds 0..MaxSec of a day
MaxRecords == 3    \* most rows the line-item table of one key holds
MaxBatchSize == 2  \* PARQUET_PROCESSING_BATCH_SIZE ranges over 1..MaxBatchSize

----------------------------------------------------------------------------
(* Values *)

SecondsPerDay == 86400   \* timedelta(days=1), in seconds
OneSecond == 1           \* timedelta(seconds=1), in seconds

None == -1    \* Python's None where a timestamp is expected
NoRow == -2   \* .first() found no SubsLastProcessed row

NoUploadKey == ""   \* the None copy_data_to_subs_s3_bucket returns on a failed upload

\* month_start, the argument of extract_data_to_s3: midnight of the month's first day
MonthStart == 2 * SecondsPerDay

Providers == {"p1"}
Extractors == {"t1"}     \* one SUBSDataExtractor per tracing_id

\* (provider_uuid, year, month): year and month are month_start's, so the
\* month is named by its month_start
Key(provider_uuid, month_start) == <<provider_uuid, month_start>>
Keys == {Key(p, MonthStart) : p \in Providers}

\* the usage-start timestamps a line item can carry: the first seconds of
\* the month's first and second day
Times == {MonthStart + d + s * OneSecond : d \in {0, SecondsPerDay}, s \in 0..MaxSec}

\* the creation timestamps a provider can carry: the day before the month
\* start, or any usage instant
CreatedTimes == {MonthStart - SecondsPerDay} \cup Times

Schema == "org1234567"

\* context["provider_type"].removesuffix("-local"), over the provider types
RemoveSuffixLocal(provider_type) ==
    CASE provider_type = "AWS-local" -> "AWS"
      [] provider_type = "Azure-local" -> "Azure"
      [] provider_type = "GCP-local" -> "GCP"
      [] provider_type = "OCI-local" -> "OCI"
      [] OTHER -> provider_type

ContextProviderType == "AWS-local"
ProviderType == RemoveSuffixLocal(ContextProviderType)
Today == "2024-03-05"

Max(S) == CHOOSE x \in S : \A y \in S : y <= x

----------------------------------------------------------------------------
(* SUBSDataExtractor's helpers *)

\* subs_s3_path
SubsS3Path(provider_uuid) ==
    Schema \o "/" \o ProviderType \o "/source=" \o provider_uuid \o "/date=" \o Today

\* determine_latest_processed_time_for_provider, given what .first() returned
DetermineLatestProcessedTimeForProvider(last_time) ==
    IF last_time # NoRow /\ last_time # None
    THEN last_time + OneSecond
    ELSE None

\* created.replace(microsecond=0, second=0, minute=0, hour=0)
ReplaceMidnight(t) == t - (t % SecondsPerDay)

\* determine_start_time with the clamp taken at equality too
DetermineStartTimeClampAtEqual(last_time, month_start, created_timestamp) ==
    LET latest == DetermineLatestProcessedTimeForProvider(last_time)
        base_time == IF latest # None THEN latest ELSE month_start
    IN  IF base_time <= created_timestamp
        THEN ReplaceMidnight(created_timestamp) - SecondsPerDay
        ELSE base_time

\* determine_start_time with the clamp a day before creation, time of day kept
DetermineStartTimeNoMidnight(last_time, month_start, created_timestamp) ==
    LET latest == DetermineLatestProcessedTimeForProvider(last_time)
        base_time == IF latest # None THEN latest ELSE month_start
    IN  IF base_time < created_timestamp
        THEN created_timestamp - SecondsPerDay
        ELSE base_time

\* determine_start_time, given what .first() returned and the provider's created_timestamp
DetermineStartTime(last_time, month_start, created_timestamp) ==
    LET latest == DetermineLatestProcessedTimeForProvider(last_time)
        base_time == IF latest # None THEN latest ELSE month_start
    IN  IF base_time < created_timestamp
        THEN ReplaceMidnight(created_timestamp) - SecondsPerDay
        ELSE base_time

\* determine_end_time: MAX(lineitem_usagestartdate), NULL over no rows
DetermineEndTime(rows) == IF rows = {} THEN None ELSE Max(rows)

\* the time conditions of determine_where_clause, on a row stamped ts
WhereClause(ts, latest_processed_time, end_time) ==
    ts > latest_processed_time /\ ts <= end_time

\* determine_line_item_count, over the rows that pass the clause's other
\* conditions (product code, line item type, vcpu, the RHEL tag)
DetermineLineItemCount(rhel_rows, latest_processed_time, end_time) ==
    Cardinality({ts \in rhel_rows : WhereClause(ts, latest_processed_time, end_time)})

\* the file name without the page index
FilenameNoIndex(tracing_id, i) == "subs_" \o tracing_id \o "_" \o ".csv"

\* f"{filename}{i}.csv" with filename = f"subs_{self.tracing_id}_"
Filename(tracing_id, i) == "subs_" \o tracing_id \o "_" \o ToString(i) \o ".csv"

\* upload_key = f"{self.subs_s3_path}/{filename}"
UploadKey(provider_uuid, filename) == SubsS3Path(provider_uuid) \o "/" \o filename

----------------------------------------------------------------------------
(* The state of an extractor outside a call *)

\* besides extract_data_to_s3's locals: pages, the sql_params of the page
\* queries issued so far; writes, the timestamps the call has saved to
\* SubsLastProcessed; before, the SubsLastProcessed table as the call found it
Idle ==
    [pc |-> "idle", provider_uuid |-> "", last_time |-> NoRow,
     start_time |-> None, end_time |-> None, total_count |-> 0,
     i |-> 0, upload_keys |-> <<>>,
     pages |-> <<>>, writes |-> <<>>, before |-> <<>>]

\* no OCI check in progress; region is OCI_CONFIG["region"], not yet set
OciIdle == [pc |-> "idle", data_source |-> [f \in {} |-> <<>>], calls |-> 0,
            cause |-> "", exception |-> "", key |-> "", result |-> FALSE, region |-> <<>>]

\* the extractors' world before any call: providers exist, nothing is loaded,
\* nothing was processed
InitOf(providers, extractors, created_times, batch_sizes) ==
    /\ created \in [providers -> created_times]
    /\ line_items = [k \in {Key(p, MonthStart) : p \in providers} |-> {}]
    /\ subs_last_processed = [k \in {Key(p, MonthStart) : p \in providers} |-> NoRow]
    /\ files = {}
    /\ batch_size \in batch_sizes
    /\ run = [t \in extractors |-> Idle]
    /\ oci = OciIdle

Init == InitOf(Providers, Extractors, CreatedTimes, 1..MaxBatchSize)

KeyOf(t) == Key(run[t].provider_uuid, MonthStart)

----------------------------------------------------------------------------
(* The cost pipeline loads and reloads the month's line items *)

\* rows land in, or are dropped from, the line-item table; only while no
\* extractor is past its count query, after which no query reads the rows'
\* timestamps again
LoadLineItemsOf(k, times) ==
    /\ \A t \in DOMAIN run : run[t].pc \in {"idle", "end_time", "count"}
    /\ \E ts \in times :
          /\ IF ts \in line_items[k]
             THEN line_items' = [line_items EXCEPT ![k] = @ \ {ts}]
             ELSE /\ Cardinality(line_items[k]) < MaxRecords
                  /\ line_items' = [line_items EXCEPT ![k] = @ \cup {ts}]
    /\ UNCHANGED <<oci, created, subs_last_processed, files, batch_size, run>>

LoadLineItems(k) == LoadLineItemsOf(k, Times)

----------------------------------------------------------------------------
(* extract_data_to_s3, one step per database, query-engine or bucket call *)

\* lines 106-109: the call starts and determine_start_time reads the row and the provider
ExtractDataToS3(t, p) ==
    /\ run[t].pc = "idle"
    /\ LET last_time == subs_last_processed[Key(p, MonthStart)]
       IN  run' = [run EXCEPT ![t] =
                     [Idle EXCEPT !.pc = "end_time",
                                  !.provider_uuid = p,
                                  !.last_time = last_time,
                                  !.before = subs_last_processed,
                                  !.start_time = DetermineStartTime(last_time, MonthStart, created[p])]]
    /\ UNCHANGED <<oci, created, line_items, subs_last_processed, files, batch_size>>

\* a Trino call raises and the watermark is advanced on the way out, as a
\* finally clause around the loop would
TrinoErrorAdvancing(t) ==
    /\ run[t].pc \in {"end_time", "count", "query"}
    /\ subs_last_processed' =
           [subs_last_processed EXCEPT ![Key(run[t].provider_uuid, MonthStart)] = run[t].end_time]
    /\ run' = [run EXCEPT ![t].pc = "raised", ![t].writes = Append(@, run[t].end_time)]
    /\ UNCHANGED <<oci, created, line_items, files, batch_size>>

\* a Trino call raises: the exception leaves extract_data_to_s3
TrinoError(t) ==
    /\ run[t].pc \in {"end_time", "count", "query"}
    /\ run' = [run EXCEPT ![t].pc = "raised"]
    /\ UNCHANGED <<oci, created, line_items, subs_last_processed, files, batch_size>>

\* line 110
EndTime(t) ==
    /\ run[t].pc = "end_time"
    /\ run' = [run EXCEPT ![t].pc = "count",
                          ![t].end_time = DetermineEndTime(line_items[KeyOf(t)])]
    /\ UNCHANGED <<oci, created, line_items, subs_last_processed, files, batch_size>>

\* the for loop of line 125 with one page too many when the count is a
\* multiple of the batch size
LoopPcInclusive(total_count, i) == IF i * batch_size <= total_count THEN "query" ELSE "update"

\* where the for loop of line 125 goes with i pages done
LoopPc(total_count, i) == IF i * batch_size < total_count THEN "query" ELSE "update"

\* lines 111-125: the count query; any of the key's rows may be RHEL rows.
\* With end_time None the clause reads TIMESTAMP 'None': the engine either
\* rejects it (TrinoError) or matches no row
LineItemCount(t) ==
    /\ run[t].pc = "count"
    /\ \E rhel_rows \in SUBSET line_items[KeyOf(t)] :
          LET total_count ==
                 IF run[t].end_time = None THEN 0
                 ELSE DetermineLineItemCount(rhel_rows, run[t].start_time, run[t].end_time)
          IN  run' = [run EXCEPT ![t].pc = LoopPc(total_count, 0),
                                 ![t].total_count = total_count]
    /\ UNCHANGED <<oci, created, line_items, subs_last_processed, files, batch_size>>

\* lines 126-135: sql_params of the page with index i
SqlParamsOffsetIsIndex(i, limit, start_time, end_time) ==
    [offset |-> i, limit |-> limit, start_time |-> start_time, end_time |-> end_time]

SqlParams(i, limit, start_time, end_time) ==
    [offset |-> i * limit, limit |-> limit, start_time |-> start_time, end_time |-> end_time]

\* lines 126-143: the page query of offset i * batch_size returns
PageQuery(t) ==
    /\ run[t].pc = "query"
    /\ run' = [run EXCEPT ![t].pc = "copy",
                          ![t].pages = Append(@, SqlParams(run[t].i, batch_size,
                                                           run[t].start_time, run[t].end_time))]
    /\ UNCHANGED <<oci, created, line_items, subs_last_processed, files, batch_size>>

\* what copy_data_to_subs_s3_bucket leaves in the working directory
FilesAfterCopy(fs, filename, uploaded) ==
    IF uploaded THEN fs \ {filename} ELSE fs \cup {filename}

\* what copy_data_to_subs_s3_bucket returns
CopyResult(upload_key, uploaded) == IF uploaded THEN upload_key ELSE NoUploadKey

\* where the loop goes after the copy of page i - 1: a failed upload is
\* caught in copy_data_to_subs_s3_bucket (lines 165-168) and the loop goes on
\* as after an upload
PcAfterCopyAbortOnFailure(total_count, i, uploaded) ==
    IF uploaded THEN LoopPc(total_count, i) ELSE "raised"

PcAfterCopy(total_count, i, uploaded) == LoopPc(total_count, i)

\* line 145 and copy_data_to_subs_s3_bucket: to_csv writes the file,
\* upload_fileobj either returns or raises EndpointConnectionError/ClientError
CopyDataToSubsS3Bucket(t, uploaded) ==
    /\ run[t].pc = "copy"
    /\ LET filename == Filename(t, run[t].i)
           upload_key == UploadKey(run[t].provider_uuid, filename)
       IN  /\ files' = FilesAfterCopy(files, filename, uploaded)
           /\ run' = [run EXCEPT ![t].upload_keys = Append(@, CopyResult(upload_key, uploaded)),
                                 ![t].i = @ + 1,
                                 ![t].pc = PcAfterCopy(run[t].total_count, run[t].i + 1, uploaded)]
    /\ UNCHANGED <<oci, created, line_items, subs_last_processed, batch_size>>

\* update_latest_processed_time that never moves the stored timestamp back
LatestProcessedTimeAfterUpdateKeepLatest(old, end_time) ==
    IF old > end_time THEN old ELSE end_time

\* update_latest_processed_time: get_or_create, then the save of end_time
LatestProcessedTimeAfterUpdate(old, end_time) == end_time

\* get_or_create looked up by year and month only, without source_uuid
SubsLastProcessedAfterUpdateAnyProvider(table, k, end_time) ==
    [j \in DOMAIN table |-> IF j[2] = k[2] THEN end_time ELSE table[j]]

\* lines 97-102: the row of (source_uuid, year, month) is fetched, or created
\* when there is none, and saved with end_time; no other row is touched
SubsLastProcessedAfterUpdate(table, k, end_time) ==
    [table EXCEPT ![k] = LatestProcessedTimeAfterUpdate(@, end_time)]

\* lines 146-154
UpdateLatestProcessedTime(t) ==
    /\ run[t].pc = "update"
    /\ subs_last_processed' =
           SubsLastProcessedAfterUpdate(subs_last_processed, KeyOf(t), run[t].end_time)
    /\ run' = [run EXCEPT ![t].pc = "done",
                          ![t].writes = Append(@, subs_last_processed'[KeyOf(t)])]
    /\ UNCHANGED <<oci, created, line_items, files, batch_size>>

\* the call is over (returned upload_keys, or raised); the extractor is dropped
Return(t) ==
    /\ run[t].pc \in {"done", "raised"}
    /\ run' = [run EXCEPT ![t] = Idle]
    /\ UNCHANGED <<oci, created, line_items, subs_last_processed, files, batch_size>>

Next ==
    \/ \E k \in DOMAIN line_items : LoadLineItems(k)
    \/ \E t \in DOMAIN run, p \in DOMAIN created : ExtractDataToS3(t, p)
    \/ \E t \in DOMAIN run : TrinoError(t)
    \/ \E t \in DOMAIN run : EndTime(t)
    \/ \E t \in DOMAIN run : LineItemCount(t)
    \/ \E t \in DOMAIN run : PageQuery(t)
    \/ \E t \in DOMAIN run : CopyDataToSubsS3Bucket(t, TRUE)
    \/ \E t \in DOMAIN run : CopyDataToSubsS3Bucket(t, FALSE)
    \/ \E t \in DOMAIN run : UpdateLatestProcessedTime(t)
    \/ \E t \in DOMAIN run : Return(t)

Spec == Init /\ [][Next]_vars

----------------------------------------------------------------------------
(* Two extractors called for one provider and month with no lock between   *)
(* them, over rows of two usage days                                       *)

ConcExtractors == {"t1", "t2"}
ConcTimes == {MonthStart + d : d \in {0, SecondsPerDay}}

InitConc == InitOf(Providers, ConcExtractors, {MonthStart - SecondsPerDay}, {1})

NextConc ==
    \/ \E k \in DOMAIN line_items : LoadLineItemsOf(k, ConcTimes)
    \/ \E t \in DOMAIN run, p \in DOMAIN created : ExtractDataToS3(t, p)
    \/ \E t \in DOMAIN run : TrinoError(t)
    \/ \E t \in DOMAIN run : EndTime(t)
    \/ \E t \in DOMAIN run : LineItemCount(t)
    \/ \E t \in DOMAIN run : PageQuery(t)
    \/ \E t \in DOMAIN run : CopyDataToSubsS3Bucket(t, TRUE)
    \/ \E t \in DOMAIN run : CopyDataToSubsS3Bucket(t, FALSE)
    \/ \E t \in DOMAIN run : UpdateLatestProcessedTime(t)
    \/ \E t \in DOMAIN run : Return(t)

SpecConc == InitConc /\ [][NextConc]_vars

----------------------------------------------------------------------------
(* One extractor called for either of two providers of the same month      *)

KeysProviders == {"p1", "p2"}

InitKeys == InitOf(KeysProviders, Extractors, {MonthStart - SecondsPerDay}, {1})

SpecKeys == InitKeys /\ [][NextConc]_vars

----------------------------------------------------------------------------
(* OCIProvider.cost_usage_source_is_reachable                              *)

\* the keys the check reads, and the strings, as sequences of characters, a
\* data source may hold for them; a data source holds any of the keys
Fields == {"bucket", "bucket_namespace", "bucket_region"}
Whitespace == {" ", "\t", "\n"}
Values == {<<>>, <<" ", "\t">>, <<"b">>, <<" ", "b">>}
DataSources == UNION {[S -> Values] : S \in SUBSET Fields}

\* str.isspace: at least one character and whitespace only
IsSpace(x) == Len(x) > 0 /\ \A n \in 1..Len(x) : x[n] \in Whitespace

\* a check that lets a whitespace-only value pass
MissingNoSpace(data_source, field) ==
    field \notin DOMAIN data_source \/ Len(data_source[field]) = 0

\* not x or x.isspace(), x = data_source.get(field)
Missing(data_source, field) ==
    \/ field \notin DOMAIN data_source
    \/ Len(data_source[field]) = 0
    \/ IsSpace(data_source[field])

\* lines 58-74: the key of the validation error, "" when nothing is missing
MissingKey(data_source) ==
    IF Missing(data_source, "bucket") THEN "OCI_BUCKET_MISSING"
    ELSE IF Missing(data_source, "bucket_namespace") THEN "OCI_BUCKET_NAMESPACE_MISSING"
    ELSE IF Missing(data_source, "bucket_region") THEN "OCI_BUCKET_REGION_MISSING"
    ELSE ""

\* lines 55-76 and 24-34: the three checks, then the call of
\* _check_cost_report_access up to its request to the object storage
CostUsageSourceIsReachable(data_source) ==
    /\ oci.pc = "idle"
    /\ IF MissingKey(data_source) # ""
       THEN oci' = [oci EXCEPT !.pc = "raised", !.data_source = data_source,
                               !.exception = "ValidationError",
                               !.key = MissingKey(data_source)]
       ELSE oci' = [oci EXCEPT !.pc = "access", !.data_source = data_source,
                               !.calls = @ + 1,
                               !.region = data_source["bucket_region"]]
    /\ UNCHANGED <<created, line_items, subs_last_processed, files, batch_size, run>>

\* lines 35-36, 44-45 and 78: the listing succeeds and the method returns True
ListObjectsReturns ==
    /\ oci.pc = "access"
    /\ oci' = [oci EXCEPT !.pc = "returned", !.result = TRUE]
    /\ UNCHANGED <<created, line_items, subs_last_processed, files, batch_size, run>>

\* lines 38-42: ClientError or ConnectionError is caught and raised again as
\* a ValidationError
ListObjectsClientError(cause) ==
    /\ oci.pc = "access"
    /\ oci' = [oci EXCEPT !.pc = "raised", !.cause = cause,
                          !.exception = "ValidationError", !.key = "OCI_NO_REPORT_FOUND"]
    /\ UNCHANGED <<created, line_items, subs_last_processed, files, batch_size, run>>

\* lines 34-36: any other exception of the client leaves the method as it is
ListObjectsOtherError ==
    /\ oci.pc = "access"
    /\ oci' = [oci EXCEPT !.pc = "raised", !.cause = "Exception", !.exception = "Exception"]
    /\ UNCHANGED <<created, line_items, subs_last_processed, files, batch_size, run>>

\* the call is over; OCI_CONFIG keeps the region
OciReturn ==
    /\ oci.pc \in {"returned", "raised"}
    /\ oci' = [OciIdle EXCEPT !.region = oci.region]
    /\ UNCHANGED <<created, line_items, subs_last_processed, files, batch_size, run>>

InitOCI == InitOf(Providers, Extractors, {MonthStart}, {1})

NextOCI ==
    \/ \E data_source \in DataSources : CostUsageSourceIsReachable(data_source)
    \/ ListObjectsReturns
    \/ \E cause \in {"ClientError", "ConnectionError"} : ListObjectsClientError(cause)
    \/ ListObjectsOtherError
    \/ OciReturn

SpecOCI == InitOCI /\ [][NextOCI]_vars

----------------------------------------------------------------------------
(* The extractors that are in a call, that know their window, that have    *)
(* counted, and that have returned                                          *)

Started == {t \in DOMAIN run : run[t].pc # "idle"}
Windowed == {t \in DOMAIN run : run[t].pc \in {"count", "query", "copy", "update", "done"}}
Counted == {t \in DOMAIN run : run[t].pc \in {"query", "copy", "update", "done"}}
Returned == {t \in DOMAIN run : run[t].pc = "done"}

\* the row held a timestamp when the call read it
HadWatermark(t) == run[t].last_time # NoRow /\ run[t].last_time # None

----------------------------------------------------------------------------
(* Claims *)

\* C1: watermark monotonicity. Across any step, the latest_processed_time
\* stored for a key never decreases: a stored timestamp is never replaced by
\* an earlier timestamp.
C1_WatermarkNeverDecreases ==
    [][\A k \in DOMAIN subs_last_processed :
          (subs_last_processed[k] >= 0 /\ subs_last_processed'[k] >= 0)
              => subs_last_processed'[k] >= subs_last_processed[k]]_vars

\* C2: skip-on-empty. A call that had an end time and counted 0 matching
\* rows returns with no page, no upload, and the key's SubsLastProcessed row
\* as the call found it (neither created nor changed).
C2_SkipOnEmpty ==
    \A t \in Returned :
        (run[t].total_count = 0 /\ run[t].end_time # None) =>
            /\ run[t].i = 0
            /\ run[t].upload_keys = <<>>
            /\ subs_last_processed[KeyOf(t)] = run[t].last_time

\* C3: no-data skip. A call whose maximum-timestamp query gave no end time
\* returns having issued no page query and no upload, with the key's
\* SubsLastProcessed row neither created nor modified.
C3_NoDataSkip ==
    \A t \in Returned :
        run[t].end_time = None =>
            /\ run[t].i = 0
            /\ run[t].upload_keys = <<>>
            /\ subs_last_processed[KeyOf(t)] = run[t].last_time

\* C4: half-open resume. A call that read a stored watermark T resolves the
\* start time T + 1 second, whatever the provider's creation time, and never
\* T or earlier.
C4_HalfOpenResume ==
    \A t \in Started :
        HadWatermark(t) =>
            /\ run[t].start_time = run[t].last_time + OneSecond
            /\ run[t].start_time > run[t].last_time

\* C5: no gap and no overlap at the watermark. In a call that read the
\* watermark T the run before it stored (and whose provider existed by
\* T + 1 second, so that the creation clamp plays no part), every timestamp
\* after T and up to the call's end time passes the call's where clause, and
\* no timestamp up to T does; T + 1 second in particular is selected.
C5_NoGapNoOverlap ==
    \A t \in Windowed :
        (/\ HadWatermark(t)
         /\ run[t].end_time # None
         /\ created[run[t].provider_uuid] <= run[t].last_time + OneSecond) =>
            \A ts \in Times :
                /\ (ts > run[t].last_time /\ ts <= run[t].end_time)
                       => WhereClause(ts, run[t].start_time, run[t].end_time)
                /\ ts <= run[t].last_time
                       => ~WhereClause(ts, run[t].start_time, run[t].end_time)

\* C6: re-runs only look past the watermark. In a call that read the
\* watermark E, the rows counted are rows stamped after E: there are no more
\* of them than timestamps in (E, end_time] (a key holds one row per
\* timestamp here), so a call that finds no row later than E exports no page.
C6_RerunOnlyPastWatermark ==
    \A t \in Counted :
        (HadWatermark(t) /\ run[t].end_time # None) =>
            /\ run[t].total_count <=
                   Cardinality({ts \in Times : ts > run[t].last_time /\ ts <= run[t].end_time})
            /\ run[t].end_time <= run[t].last_time => run[t].pc \in {"update", "done"} /\ run[t].i = 0

\* C7: returned keys are exactly the successful uploads. The list a call
\* returns holds object keys only, none a placeholder for a failed page, so
\* its length is the number of pages whose upload succeeded.
C7_ReturnedKeysAreUploads ==
    \A t \in Returned :
        \A j \in 1..Len(run[t].upload_keys) : run[t].upload_keys[j] # NoUploadKey

\* C8: temporary file cleanup. Whenever copy_data_to_subs_s3_bucket has
\* returned, by upload or by caught failure, the CSV file it wrote is gone:
\* no export file is ever left in the working directory.
C8_NoTemporaryFileRemains == files = {}

\* C9: creation clamp. With naive start the watermark + 1 second if the call
\* read one and the month start otherwise: if the naive start is strictly
\* before the provider's creation, the resolved start is 00:00:00 of the day
\* before the creation day, however far before; otherwise it is the naive start.
C9_CreationClamp ==
    \A t \in Started :
        LET naive == IF HadWatermark(t) THEN run[t].last_time + 1 ELSE MonthStart
            creation == created[run[t].provider_uuid]
            creation_day == creation \div 86400
        IN  IF naive < creation
            THEN run[t].start_time = (creation_day - 1) * 86400
            ELSE run[t].start_time = naive

\* C9's case: a call that read a watermark more than a day before the
\* creation of a provider created after midnight, and was clamped back to it
C9_Witness ==
    \E t \in Started :
        /\ HadWatermark(t)
        /\ created[run[t].provider_uuid] % 86400 # 0
        /\ run[t].last_time + 1 + 86400 <= created[run[t].provider_uuid]
        /\ run[t].start_time <= run[t].last_time

\* C10 as stated: with no prior watermark and the provider created at the
\* month start, the clamp applies and the resolved start is midnight of the
\* day before creation.
C10_ClampAtEquality ==
    \A t \in Started :
        (~HadWatermark(t) /\ created[run[t].provider_uuid] = MonthStart) =>
            run[t].start_time = MonthStart - 86400

\* C10 as amended: with no prior watermark and the provider created at the
\* month start, the clamp does not apply (the comparison is strict) and the
\* resolved start is the month start itself.
C10_NoClampAtEquality ==
    \A t \in Started :
        (~HadWatermark(t) /\ created[run[t].provider_uuid] = MonthStart) =>
            run[t].start_time = MonthStart

\* C10's case: a first call for a provider created at the month start
C10_Witness ==
    \E t \in Started :
        /\ run[t].last_time = NoRow
        /\ created[run[t].provider_uuid] = MonthStart
        /\ run[t].start_time = created[run[t].provider_uuid]

\* an extractor whose page loop has ended
LoopEnded == {t \in DOMAIN run : run[t].pc \in {"update", "done"}}

\* ceil(n / p)
Ceil(n, p) == (n + p - 1) \div p

\* C11 as stated: when the loop has ended it has generated ceil(N / P) pages
\* at offsets 0, P, 2P, ..., and the last of them starts at floor(N / P) * P.
C11_PaginationLastPageAtFloor ==
    \A t \in LoopEnded :
        LET N == run[t].total_count
            P == batch_size
            M == Len(run[t].pages)
        IN  /\ M = Ceil(N, P)
            /\ \A j \in 1..M : run[t].pages[j].offset = (j - 1) * P
            /\ M > 0 => run[t].pages[M].offset = (N \div P) * P

\* C11 as amended: when the loop has ended it has generated ceil(N / P) pages
\* at offsets 0, P, 2P, ..., each of limit P, and the last of them covers the
\* rows [(ceil(N / P) - 1) * P, N), at least one row and at most P.
C11_PaginationCompleteness ==
    \A t \in LoopEnded :
        LET N == run[t].total_count
            P == batch_size
            M == Len(run[t].pages)
        IN  /\ M = Ceil(N, P)
            /\ \A j \in 1..M : run[t].pages[j].offset = (j - 1) * P /\ run[t].pages[j].limit = P
            /\ M > 0 => /\ run[t].pages[M].offset = (Ceil(N, P) - 1) * P
                        /\ run[t].pages[M].offset < N
                        /\ N <= run[t].pages[M].offset + P

\* C11's case: a loop that has ended over a count that is a multiple of the
\* batch size, in more than one page
C11_Witness ==
    \E t \in LoopEnded :
        /\ batch_size = 1
        /\ run[t].total_count = 3
        /\ Len(run[t].pages) = 3
        /\ run[t].pages[3].offset = 2

\* C12: partial-failure non-blocking. A step in which a page's upload fails
\* does not end the call: it leads to the next page's query, or past the
\* loop if that was the last of the ceil(N / P) pages, then all attempted.
\* Every page query is for an offset not queried before in the call, issued
\* when each earlier page has had its one upload attempt; every upload
\* attempt is the first for its page (no page is retried).
C12_PartialFailureNonBlocking ==
    [][\A t \in DOMAIN run :
          LET r == run[t]
              q == run'[t]
              attempted == Len(q.upload_keys) = Len(r.upload_keys) + 1
              failed == attempted /\ q.upload_keys[Len(q.upload_keys)] = NoUploadKey
              queried == Len(q.pages) = Len(r.pages) + 1
          IN  /\ failed =>
                    /\ q.pc = IF (r.i + 1) * batch_size < r.total_count THEN "query" ELSE "update"
                    /\ q.pc = "update" => Len(q.upload_keys) = Ceil(r.total_count, batch_size)
                    /\ q.pages = r.pages
              /\ queried =>
                    /\ \A j \in 1..Len(r.pages) : r.pages[j].offset # q.pages[Len(q.pages)].offset
                    /\ Len(r.upload_keys) = Len(r.pages)
              /\ attempted => Len(q.upload_keys) = Len(r.pages)]_vars

\* C12's case: a call of three pages whose first upload failed and whose
\* second and third pages were then queried and uploaded
C12_Witness ==
    \E t \in DOMAIN run :
        /\ run[t].pc = "done"
        /\ Len(run[t].upload_keys) = 3
        /\ Len(run[t].pages) = 3
        /\ run[t].upload_keys[1] = NoUploadKey
        /\ run[t].upload_keys[2] # NoUploadKey
        /\ run[t].upload_keys[3] # NoUploadKey

\* C13: single advance after the loop. A call that has not yet attempted
\* all its pages, or has raised, has saved nothing to SubsLastProcessed; a
\* call that has returned attempted every one of its ceil(N / P) pages and
\* saved exactly once, the value end_time, whatever the uploads' outcomes.
C13_SingleAdvanceAfterLoop ==
    \A t \in Started :
        /\ run[t].pc # "done" => run[t].writes = <<>>
        /\ run[t].pc = "done" =>
              /\ Len(run[t].upload_keys) = Ceil(run[t].total_count, batch_size)
              /\ run[t].writes = <<run[t].end_time>>

\* C13's case: a returned call of at least two pages, one of them failed,
\* that saved its end time once
C13_Witness ==
    \E t \in Returned :
        /\ Len(run[t].upload_keys) >= 2
        /\ \E j \in 1..Len(run[t].upload_keys) : run[t].upload_keys[j] = NoUploadKey
        /\ run[t].writes = <<run[t].end_time>>
        /\ run[t].end_time # run[t].last_time

\* C14: query-engine failure leaves the watermark untouched. A call that a
\* failed Trino query made raise (the maximum query, the count, or a page
\* query, also after pages were uploaded) has saved nothing to
\* SubsLastProcessed, and the table is, for every key, as the call found it.
C14_TrinoErrorLeavesWatermark ==
    \A t \in Started :
        run[t].pc = "raised" =>
            /\ run[t].writes = <<>>
            /\ subs_last_processed = run[t].before

\* C14's case: a page query raised after an earlier page was uploaded
C14_Witness ==
    \E t \in Started :
        /\ run[t].pc = "raised"
        /\ Len(run[t].pages) >= 1
        /\ run[t].upload_keys[1] # NoUploadKey
        /\ run[t].end_time > run[t].last_time

\* C15 as stated: a call ends either returned, all its pages attempted and
\* the watermark advanced, or raised before any page was processed, nothing
\* uploaded and the SubsLastProcessed table untouched.
C15_DoneOrUntouched ==
    \A t \in Started :
        /\ run[t].pc = "done" =>
              /\ Len(run[t].upload_keys) = Ceil(run[t].total_count, batch_size)
              /\ run[t].writes = <<run[t].end_time>>
        /\ run[t].pc = "raised" =>
              /\ \A j \in 1..Len(run[t].upload_keys) : run[t].upload_keys[j] = NoUploadKey
              /\ subs_last_processed = run[t].before

\* C15 as amended: a call ends either returned, all its pages attempted and
\* the watermark saved once, or raised by a failed query with the
\* SubsLastProcessed table untouched; a raised call may have entered the loop:
\* it then attempted every page it queried, fewer than all its pages, and
\* what it uploaded stays uploaded.
C15_DoneOrRaisedUnadvanced ==
    \A t \in Started :
        /\ run[t].pc = "done" =>
              /\ Len(run[t].upload_keys) = Ceil(run[t].total_count, batch_size)
              /\ Len(run[t].pages) = Len(run[t].upload_keys)
              /\ run[t].writes = <<run[t].end_time>>
        /\ run[t].pc = "raised" =>
              /\ run[t].writes = <<>>
              /\ subs_last_processed = run[t].before
              /\ Len(run[t].upload_keys) = Len(run[t].pages)
              /\ Len(run[t].pages) > 0 =>
                     Len(run[t].pages) < Ceil(run[t].total_count, batch_size)

\* C15's case: a call that raised inside the loop with a page uploaded and
\* the watermark not advanced
C15_Witness ==
    \E t \in Started :
        /\ run[t].pc = "raised"
        /\ \E j \in 1..Len(run[t].upload_keys) : run[t].upload_keys[j] # NoUploadKey
        /\ run[t].writes = <<>>
        /\ subs_last_processed[KeyOf(t)] = run[t].last_time

\* the keys a call has got back from uploads, by page index
UploadedPages(t) == {j \in 1..Len(run[t].upload_keys) : run[t].upload_keys[j] # NoUploadKey}

\* C16: deterministic keys. The object key of the page with index i is
\* schema/providerType/source=providerId/date=today/subs_<tracing id>_<i>.csv,
\* with the provider type stripped of -local: in every call of the same
\* context the same key for the same page index, and within a call keys that
\* differ in the page index only and are pairwise distinct.
C16_DeterministicKeys ==
    \A t \in Started :
        /\ \A j \in UploadedPages(t) :
              run[t].upload_keys[j] =
                  "org1234567/AWS/source=" \o run[t].provider_uuid \o "/date=2024-03-05/"
                      \o "subs_" \o t \o "_" \o ToString(j - 1) \o ".csv"
        /\ \A j, k \in UploadedPages(t) :
              j # k => run[t].upload_keys[j] # run[t].upload_keys[k]

\* C16's case: a call that has uploaded three pages
C16_Witness ==
    \E t \in Started :
        /\ UploadedPages(t) = {1, 2, 3}
        /\ run[t].upload_keys[3] = "org1234567/AWS/source=p1/date=2024-03-05/subs_t1_2.csv"

\* C19: strict page order. Within a call the page with index i is queried
\* with offset i * batch_size and limit batch_size, in ascending order of i,
\* with the start time and end time the call resolved before the loop; the
\* copy of page i is over (uploaded or failed and caught) before the query of
\* page i + 1 is issued, so at most one page is queried and not yet copied.
C19_StrictPageOrder ==
    \A t \in Started :
        /\ \A j \in 1..Len(run[t].pages) :
              run[t].pages[j] = [offset |-> (j - 1) * batch_size,
                                 limit |-> batch_size,
                                 start_time |-> run[t].start_time,
                                 end_time |-> run[t].end_time]
        /\ Len(run[t].upload_keys) = run[t].i
        /\ Len(run[t].pages) = IF run[t].pc = "copy" THEN run[t].i + 1 ELSE run[t].i

\* C19's case: the second page of a batch size of 2 is queried, the first
\* page's copy being over
C19_Witness ==
    \E t \in Started :
        /\ batch_size = 2
        /\ run[t].pc = "copy"
        /\ Len(run[t].pages) = 2
        /\ run[t].pages[2].offset = 2
        /\ Len(run[t].upload_keys) = 1

\* C17: concurrent calls on one key race on the stored timestamp. A call
\* that starts resolves its start time from the row as stored at that moment,
\* whatever another call in progress is about to write, and a call that
\* updates stores its own end time whatever the row holds: the row is the end
\* time of the call that wrote last. Calls made one after the other therefore
\* each start from what the call before stored; interleaved calls can start
\* from the same row and leave a timestamp lower than one already stored.
C17_LastWriterWins ==
    [][\A t \in DOMAIN run :
          /\ (run[t].pc = "idle" /\ run'[t].pc = "end_time") =>
                /\ run'[t].last_time = subs_last_processed[Key(run'[t].provider_uuid, MonthStart)]
                /\ run'[t].start_time =
                       DetermineStartTime(subs_last_processed[Key(run'[t].provider_uuid, MonthStart)],
                                          MonthStart, created[run'[t].provider_uuid])
          /\ (run[t].pc = "update" /\ run'[t].pc = "done") =>
                subs_last_processed'[KeyOf(t)] = run[t].end_time]_vars

\* C17's case: two calls for the same key read the same row and resolved the
\* same start time, both updated, and the row holds the lower of the two end
\* times, the higher one having been stored before
C17_Witness ==
    \E t, u \in Returned :
        /\ t # u
        /\ KeyOf(t) = KeyOf(u)
        /\ run[t].last_time = run[u].last_time
        /\ run[t].start_time = run[u].start_time
        /\ run[t].end_time >= 0
        /\ run[t].end_time < run[u].end_time
        /\ run[u].writes = <<run[u].end_time>>
        /\ run[t].writes = <<run[t].end_time>>
        /\ subs_last_processed[KeyOf(t)] = run[t].end_time

\* C18: upsert and frame of the stored timestamp. A call reads the row of its
\* own (provider, year, month) only; its update leaves that key with exactly
\* the end time it was given, whether the key had no row or a row with any
\* timestamp; and in every step the row of every other key, present or
\* absent, stays as it was.
C18_UpsertAndFrame ==
    [][/\ \A t \in DOMAIN run :
             (run[t].pc = "idle" /\ run'[t].pc = "end_time") =>
                 run'[t].last_time = subs_last_processed[Key(run'[t].provider_uuid, MonthStart)]
       /\ \A k \in DOMAIN subs_last_processed :
             LET updating == {t \in DOMAIN run :
                                 run[t].pc = "update" /\ run'[t].pc = "done" /\ KeyOf(t) = k}
             IN  IF updating = {}
                 THEN subs_last_processed'[k] = subs_last_processed[k]
                 ELSE \A t \in updating : subs_last_processed'[k] = run[t].end_time]_vars

\* C18's case: a call has overwritten its key's later timestamp with its end
\* time while the other provider's key keeps the timestamp it had
C18_Witness ==
    \E t \in Returned :
        \E k \in DOMAIN subs_last_processed \ {KeyOf(t)} :
            /\ run[t].last_time >= 0
            /\ run[t].end_time >= 0
            /\ run[t].end_time < run[t].last_time
            /\ subs_last_processed[KeyOf(t)] = run[t].end_time
            /\ subs_last_processed[k] = run[t].before[k]
            /\ subs_last_processed[k] >= 0
            /\ subs_last_processed[k] # run[t].end_time

\* C20: the OCI reachability check validates before it connects. bucket,
\* bucket_namespace and bucket_region are examined in this order and the call
\* raises a validation error with the key of the first of them that is
\* absent, empty or whitespace only, without any call of the access check;
\* with all three present the access check is called exactly once, True is
\* returned only when it raised nothing, and its ClientError or
\* ConnectionError leaves as a validation error with the no-report-found key.
C20_ValidateBeforeConnect ==
    LET blank(f) == \/ f \notin DOMAIN oci.data_source
                    \/ oci.data_source[f] \in {<<>>, <<" ", "\t">>}
        validation(key) == /\ oci.pc = "raised"
                           /\ oci.exception = "ValidationError"
                           /\ oci.key = key
                           /\ oci.calls = 0
    IN  oci.pc # "idle" =>
          /\ blank("bucket") => validation("OCI_BUCKET_MISSING")
          /\ (~blank("bucket") /\ blank("bucket_namespace")) =>
                 validation("OCI_BUCKET_NAMESPACE_MISSING")
          /\ (~blank("bucket") /\ ~blank("bucket_namespace") /\ blank("bucket_region")) =>
                 validation("OCI_BUCKET_REGION_MISSING")
          /\ (\A f \in Fields : ~blank(f)) => oci.calls = 1
          /\ oci.result = (oci.pc = "returned")
          /\ oci.pc = "returned" => (oci.calls = 1 /\ oci.cause = "" /\ oci.exception = "")
          /\ oci.cause \in {"ClientError", "ConnectionError"} =>
                 /\ oci.pc = "raised"
                 /\ oci.exception = "ValidationError"
                 /\ oci.key = "OCI_NO_REPORT_FOUND"

\* C20's case: a data source with a bucket and a whitespace-only namespace,
\* and no region at all, was refused for its namespace
C20_Witness ==
    /\ oci.pc = "raised"
    /\ DOMAIN oci.data_source = {"bucket", "bucket_namespace"}
    /\ oci.data_source["bucket"] = <<" ", "b">>
    /\ oci.data_source["bucket_namespace"] = <<" ", "\t">>
    /\ oci.key = "OCI_BUCKET_NAMESPACE_MISSING"
    /\ oci.calls = 0

====
